---- MODULE Spec2Model ----
(***************************************************************************)
(* Time Sync: the /api/server-time endpoint (route.ts) and the page that   *)
(* keeps a ticking display of the estimated remote time (page.tsx, the     *)
(* current Home component, lines 150-351).                                 *)
(*                                                                         *)
(* JavaScript values are modelled as follows.                              *)
(*   - a string is a tuple of one-character strings;                       *)
(*   - a nullable value (number | null, string | null) is the empty tuple  *)
(*     Null or a one-element tuple Some(v);                                *)
(*   - a number that may be NaN is a record [nan, v].                      *)
(***************************************************************************)
EXTENDS Integers, Sequences, FiniteSets, TLC

----------------------------------------------------------------------------
(* Bounds of the model *)

\* the server clock is read in 0 .. MaxServerClock (and at 40, see ServerClock)
MaxServerClock == 2
\* the page's local clock runs in 0 .. MaxNow
MaxNow == 200
\* number of sync attempts the user starts
MaxAttempts == 3

----------------------------------------------------------------------------
(* JavaScript values *)

Null == << >>
Some(v) == << v >>

NaN == [nan |-> TRUE, v |-> 0]
Num(n) == [nan |-> FALSE, v |-> n]

\* a + b on numbers: NaN is absorbing
NumAdd(a, b) == IF a.nan \/ b.nan THEN NaN ELSE Num(a.v + b.v)

----------------------------------------------------------------------------
(* Strings *)

Str_empty == << >>
Str_spaces == << " ", " " >>
Str_naver == << "n", "a", "v", "e", "r", ".", "c", "o", "m" >>
Str_https_naver ==
    << "h", "t", "t", "p", "s", ":", "/", "/", "n", "a", "v", "e", "r", ".", "c", "o", "m" >>
Str_HTTP_Naver_path ==
    << "H", "T", "T", "P", ":", "/", "/", "N", "a", "v", "e", "r", ".", "c", "o", "m", "/", "a" >>
Str_padded_naver == << " ", "n", "a", "v", "e", "r", ".", "c", "o", "m", " " >>
Str_inner_space == << "n", " ", "c" >>
Str_scheme_only == << "h", "t", "t", "p", ":", "/", "/" >>

Str_https == << "h", "t", "t", "p", "s", ":", "/", "/" >>

IsSpace(c) == c = " "

RECURSIVE TrimStart(_)
TrimStart(s) ==
    IF s # << >> /\ IsSpace(Head(s)) THEN TrimStart(Tail(s)) ELSE s

RECURSIVE TrimEnd(_)
TrimEnd(s) ==
    IF s # << >> /\ IsSpace(s[Len(s)]) THEN TrimEnd(SubSeq(s, 1, Len(s) - 1)) ELSE s

\* String.prototype.trim
Trim(s) == TrimEnd(TrimStart(s))

\* ASCII lower-casing of the letters the model's strings use
ToLower(c) ==
    CASE c = "H" -> "h"
      [] c = "T" -> "t"
      [] c = "P" -> "p"
      [] c = "S" -> "s"
      [] c = "N" -> "n"
      [] c = "C" -> "c"
      [] c = "A" -> "a"
      [] OTHER -> c

LowerStr(s) == [i \in 1 .. Len(s) |-> ToLower(s[i])]

StartsWith(s, p) == Len(s) >= Len(p) /\ SubSeq(s, 1, Len(p)) = p

\* /^https?:\/\//i.test(s)
HasScheme(s) ==
    \/ StartsWith(LowerStr(s), << "h", "t", "t", "p", ":", "/", "/" >>)
    \/ StartsWith(LowerStr(s), << "h", "t", "t", "p", "s", ":", "/", "/" >>)

\* index of the first occurrence of character c in s, or Len(s) + 1
RECURSIVE IndexOf(_, _, _)
IndexOf(s, c, i) ==
    IF i > Len(s) THEN Len(s) + 1
    ELSE IF s[i] = c THEN i
    ELSE IndexOf(s, c, i + 1)

RECURSIVE SkipSlashes(_)
SkipSlashes(s) == IF s # << >> /\ Head(s) = "/" THEN SkipSlashes(Tail(s)) ELSE s

\* new URL(s) for a string that starts with http:// or https:// : the scheme
\* and the host are lower-cased, the host ends at the first "/", an optional
\* ":port" must be empty or digits (the model's alphabet has no digits), and
\* an empty host or a host with a forbidden character (space) is a TypeError.
URL(s) ==
    LET low == LowerStr(s)
        secure == StartsWith(low, Str_https)
        scheme == IF secure THEN << "h", "t", "t", "p", "s" >> ELSE << "h", "t", "t", "p" >>
        rest == SkipSlashes(SubSeq(s, Len(scheme) + 2, Len(s)))
        authority == SubSeq(rest, 1, IndexOf(rest, "/", 1) - 1)
        colon == IndexOf(authority, ":", 1)
        host == LowerStr(SubSeq(authority, 1, colon - 1))
        port == SubSeq(authority, colon + 1, Len(authority))
        bad == \/ host = << >>
               \/ \E i \in 1 .. Len(host) : IsSpace(host[i])
               \/ port # << >>
    IN  [ok |-> ~bad,
         href |-> IF bad THEN << >> ELSE scheme \o << ":", "/", "/" >> \o host
                       \o SubSeq(rest, Len(authority) + 1, Len(rest)),
         origin |-> IF bad THEN << >> ELSE scheme \o << ":", "/", "/" >> \o host]

----------------------------------------------------------------------------
(* The endpoint: POST /api/server-time (route.ts) *)

\* The value of body.url after request.json(). A client may send anything.
JsUndefined == [t |-> "undefined", s |-> << >>, n |-> 0]
JsNumber(k) == [t |-> "number", s |-> << >>, n |-> k]
JsString(str) == [t |-> "string", s |-> str, n |-> 0]

\* !v is false
Truthy(v) ==
    CASE v.t = "undefined" -> FALSE
      [] v.t = "number" -> v.n # 0
      [] v.t = "string" -> v.s # << >>

UrlInputs ==
    { Str_empty, Str_spaces, Str_naver, Str_https_naver, Str_HTTP_Naver_path,
      Str_padded_naver, Str_inner_space, Str_scheme_only }

\* request bodies: json = FALSE is a body request.json() cannot read
Bodies ==
    { [json |-> FALSE, url |-> JsUndefined] }
    \cup { [json |-> TRUE, url |-> u] :
             u \in {JsUndefined, JsNumber(0), JsNumber(5)} \cup { JsString(x) : x \in UrlInputs } }

\* Times a remote server reports in its Date header, in ms, whole seconds.
\* TLC's integers are 32 bits wide, so the instant 1700000000000 of the
\* specification's scenario is modelled by 1700000000.
ReportedTimes == { 1000, 1700000000 }

\* What response.headers.get("date") finds.
DateHeaders ==
    { [kind |-> k, ms |-> 0] : k \in {"absent", "empty", "invalid"} }
    \cup { [kind |-> "valid", ms |-> r] : r \in ReportedTimes }

\* The outcome of fetch(targetUrl, HEAD): it throws, or resolves with headers.
Probes == { [throws |-> b, date |-> h] : b \in BOOLEAN, h \in DateHeaders }

\* Readings of the server's Date.now(): a wall clock, which may be stepped
\* back between two readings. 40 is the latency of the specification's scenario.
ServerClock == (0 .. MaxServerClock) \cup {40}

\* !serverDateHeader is false: headers.get gave a non-empty string
HeaderPresent_Any(h) == TRUE
HeaderPresent(h) == h.kind \in {"invalid", "valid"}

\* new Date(serverDateHeader).getTime()
DateGetTime(h) == IF h.kind = "valid" THEN Num(h.ms) ELSE NaN

\* Math.floor(latency / 2)
HalfLatency_Round(latency) == (latency + 1) \div 2
HalfLatency(latency) == latency \div 2

\* the fields of an instant that a textual rendering shows, reduced to the
\* minutes since the epoch, the seconds of the minute and the milliseconds
TimeFields(t) == [min |-> t \div 60000, ss |-> (t \div 1000) % 60, ms |-> t % 1000]

\* new Date(t).toISOString()
toISOString(t) == TimeFields(t)

ErrorResponse(code, msg) ==
    [status |-> code, error |-> msg, serverTime |-> 0, serverTimeISO |-> TimeFields(0),
     latency |-> 0, url |-> << >>]

Err_UrlRequired == "URL is required"
Err_InvalidUrl == "Invalid URL format"
Err_NoDateHeader == "Server did not return a Date header"
Err_Failed == "Failed to fetch server time"

\* lines 15-27: trim, add the scheme, parse. A url that is not a string has no
\* trim method: the TypeError is caught by the same catch.
NormalizedUrl_AlwaysPrefix(s) == Str_https \o Trim(s)
NormalizedUrl(s) == IF ~HasScheme(Trim(s)) THEN Str_https \o Trim(s) ELSE Trim(s)

TargetUrl_Unchecked(v) ==
    [ok |-> TRUE, href |-> NormalizedUrl(v.s), origin |-> NormalizedUrl(v.s)]
TargetUrl(v) ==
    IF v.t # "string" THEN [ok |-> FALSE, href |-> << >>, origin |-> << >>]
    ELSE URL(NormalizedUrl(v.s))

\* The outer catch (lines 59-65): whatever was thrown, the answer is the same.
Caught_Leaky(cause) == ErrorResponse(500, cause)
Caught(cause) == ErrorResponse(500, Err_Failed)

\* the number of fetch calls the handler makes for a probe (lines 31-34)
ProbeFetches_Retry(probe) == IF probe.throws THEN 2 ELSE 1
ProbeFetches(probe) == 1

\* what the handler answers once the probe has resolved (lines 35-58)
AfterProbe(target, probe, startTime, endTime) ==
    IF ~HeaderPresent(probe.date) THEN ErrorResponse(400, Err_NoDateHeader)
    ELSE LET serverTimeMs == DateGetTime(probe.date)
             latency == endTime - startTime
             adjustedServerTime == NumAdd(serverTimeMs, Num(HalfLatency(latency)))
         IN  \* new Date(NaN).toISOString() throws a RangeError: outer catch
             IF adjustedServerTime.nan THEN Caught("RangeError: Invalid time value")
             ELSE [status |-> 200, error |-> "",
                   serverTime |-> adjustedServerTime.v,
                   serverTimeISO |-> toISOString(adjustedServerTime.v),
                   latency |-> latency, url |-> target.origin]

\* The handler. fetches counts the outbound requests it made.
POST(body, probe, startTime, endTime) ==
    IF ~body.json
    THEN [response |-> Caught("SyntaxError: Unexpected end of JSON input"), fetches |-> 0]
    ELSE IF ~Truthy(body.url)
    THEN [response |-> ErrorResponse(400, Err_UrlRequired), fetches |-> 0]
    ELSE IF ~TargetUrl(body.url).ok
    THEN [response |-> ErrorResponse(400, Err_InvalidUrl), fetches |-> 0]
    ELSE IF probe.throws
    THEN [response |-> Caught("TypeError: fetch failed"), fetches |-> ProbeFetches(probe)]
    ELSE [response |-> AfterProbe(TargetUrl(body.url), probe, startTime, endTime),
          fetches |-> ProbeFetches(probe)]

----------------------------------------------------------------------------
(* The page: Home (page.tsx) *)

\* setInterval(..., 100)
TickPeriod == 100

\* the local clock is observed at multiples of the tick period
ClockStep == TickPeriod

\* what the user types into the input
TypedUrls == { Str_empty, Str_naver, Str_inner_space }

\* What the endpoint can answer to the page's request for url u, with the
\* Date header the probe found ("none" when no probe resolved). The remote
\* reports 1000 and the probe starts at server time 0.
PageAnswers(u) ==
    { [data |-> POST([json |-> TRUE, url |-> JsString(u)], probe, 0, endTime).response,
       date |-> IF POST([json |-> TRUE, url |-> JsString(u)], probe, 0, endTime).fetches = 1
                   /\ ~probe.throws
                THEN probe.date.kind ELSE "none"] :
        probe \in { p \in Probes : p.date.ms <= 1000 }, endTime \in 0 .. MaxServerClock }

\* the answers to each typed url, as a table of <<url, answers>> rows
AnswersTo == { << u, PageAnswers(u) >> : u \in TypedUrls }

\* formatTime(new Date(t)): the zero-padded fields of the instant
formatTime(t) == TimeFields(t)

\* the instant a rendered time denotes
Instant(f) == f.min * 60000 + f.ss * 1000 + f.ms

\* disabled={loading} on the Sync button
ButtonEnabled(ld) == ~ld

\* e.key === "Enter" && !loading
EnterStarts_Unguarded(ld) == TRUE
EnterStarts(ld) == ~ld

\* the message of the error thrown when fetch("/api/server-time") rejects
ClientFetchError == "Failed to fetch"

\* data.error || "Failed to fetch"
ErrorOf_Generic(data) == "Failed to fetch"
ErrorOf(data) == IF data.error # "" THEN data.error ELSE "Failed to fetch"

\* the try branch after a response that is ok (lines 246-250), at local time t
OnSuccess_NoUrl(data, t) ==
    [timeOffset |-> Some(data.serverTime - t),
     syncedUrl |-> Null,
     serverTime |-> Some(formatTime(data.serverTime))]
OnSuccess(data, t) ==
    [timeOffset |-> Some(data.serverTime - t),
     syncedUrl |-> Some(data.url),
     serverTime |-> Some(formatTime(data.serverTime))]

\* the catch branch (lines 251-254); serverTime is not assigned
OnFailure_KeepOffset(msg, off, shown) ==
    [error |-> Some(msg), timeOffset |-> off, syncedUrl |-> Null, serverTime |-> shown]
OnFailure(msg, off, shown) ==
    [error |-> Some(msg), timeOffset |-> Null, syncedUrl |-> Null, serverTime |-> shown]

\* the finally branch (lines 255-257): loading after an attempt that ended ok or not
LoadingAfter_TryOnly(ok) == ~ok
LoadingAfter(ok) == FALSE

\* the cleanup the tick effect returns (lines 222-226)
EffectCleanup_Keep(tm, ref) == tm
EffectCleanup(tm, ref) ==
    IF ref # Null THEN { x \in tm : x.id # ref[1] } ELSE tm

\* One run of the tick effect for a render whose timeOffset is off, at local
\* time t: the previous run's cleanup, then the effect's body (lines 214-227).
\* rt is [timers, intervalRef, nextTimer]; a timer is [id, offset, due], offset
\* being the timeOffset its callback closed over.
TickEffect(rt, off, t) ==
    LET kept == EffectCleanup(rt.timers, rt.intervalRef)
    IN  IF off # Null
        THEN [timers |-> kept \cup { [id |-> rt.nextTimer, offset |-> off[1],
                                      due |-> t + TickPeriod] },
              intervalRef |-> Some(rt.nextTimer),
              nextTimer |-> rt.nextTimer + 1]
        ELSE [timers |-> kept, intervalRef |-> rt.intervalRef, nextTimer |-> rt.nextTimer]

\* the interval callback (lines 216-219) of timer x at local time t
TickValue_FromDue(x, t) == x.due + x.offset
TickValue(x, t) == t + x.offset

----------------------------------------------------------------------------
VARIABLES
    url,            \* useState: the input's text
    serverTime,     \* useState: the rendered time, or Null
    loading,        \* useState
    error,          \* useState: the error text, or Null
    darkMode,       \* useState: Null until the first effect has run
    timeOffset,     \* useState: the active offset, or Null
    syncedUrl,      \* useState
    intervalRef,    \* useRef: intervalRef.current, a timer id or Null
    phase,          \* "rendered" (effects not yet run), "mounted", "unmounted"
    effectPending,  \* a render with a new timeOffset is committed and the tick
                    \* effect has not yet run for it
    timers,         \* the intervals that are set and not cleared
    nextTimer,      \* the id the next setInterval returns
    now,            \* the page's Date.now()
    inflight,       \* the fetches of /api/server-time that have not settled
    attempts,       \* number of fetchServerTime calls so far
    lastAttempt,    \* history: how the last settled attempt ended, or Null
    lastTick,       \* history: the last run of an interval callback, or Null
    apiCall,        \* a call of the endpoint by any client: its inputs
    apiAnswer       \* what the endpoint answered to apiCall, or Null

pageVars == << url, serverTime, loading, error, darkMode, timeOffset, syncedUrl,
               intervalRef, phase, effectPending, timers, nextTimer, now, inflight,
               attempts, lastAttempt, lastTick >>
apiVars == << apiCall, apiAnswer >>
vars == << pageVars, apiVars >>

NoCall == [body |-> [json |-> FALSE, url |-> JsUndefined],
           probe |-> [throws |-> TRUE, date |-> [kind |-> "absent", ms |-> 0]],
           startTime |-> 0, endTime |-> 0]

PageInit ==
    /\ url = << >>
    /\ serverTime = Null
    /\ loading = FALSE
    /\ error = Null
    /\ darkMode = Null
    /\ timeOffset = Null
    /\ syncedUrl = Null
    /\ intervalRef = Null
    /\ phase = "rendered"
    /\ effectPending = FALSE
    /\ timers = {}
    /\ nextTimer = 1
    /\ now = 0
    /\ inflight = {}
    /\ attempts = 0
    /\ lastAttempt = Null
    /\ lastTick = Null

Init == PageInit /\ apiCall = NoCall /\ apiAnswer = Null

----------------------------------------------------------------------------
(* The endpoint on its own: a client sends a request, the handler answers *)

ApiInit ==
    /\ PageInit
    /\ apiCall \in [body : Bodies, probe : Probes, startTime : ServerClock,
                    endTime : ServerClock]
    /\ apiAnswer = Null

ApiRequest ==
    /\ apiAnswer = Null
    /\ apiAnswer' = Some(POST(apiCall.body, apiCall.probe, apiCall.startTime,
                              apiCall.endTime))
    /\ UNCHANGED << apiCall, pageVars >>

ApiNext == ApiRequest

ApiSpec == ApiInit /\ [][ApiNext]_vars

----------------------------------------------------------------------------
(* The page's steps.                                                       *)
(*                                                                         *)
(* React commits the state updates of one handler or continuation together *)
(* and runs useEffect effects after the commit, in a task of their own; a  *)
(* pending effect is run at the latest before the next render and before   *)
(* the next user event is handled. A timer callback is a task of the event *)
(* loop and may run between a commit and the effect that follows it.       *)

Rt == [timers |-> timers, intervalRef |-> intervalRef, nextTimer |-> nextTimer]

\* the timers and the ref once a pending tick effect has run
Flushed == IF effectPending THEN TickEffect(Rt, timeOffset, now) ELSE Rt

UsesRt(rt) ==
    /\ timers' = rt.timers
    /\ intervalRef' = rt.intervalRef
    /\ nextTimer' = rt.nextTimer

\* The first effects run (lines 196-227): darkMode is read from storage or the
\* media query, and the tick effect finds timeOffset null.
Mount ==
    /\ phase = "rendered"
    /\ phase' = "mounted"
    /\ \E stored \in BOOLEAN : darkMode' = Some(stored)
    /\ UsesRt(TickEffect(Rt, timeOffset, now))
    /\ UNCHANGED << url, serverTime, loading, error, timeOffset, syncedUrl,
                    effectPending, now, inflight, attempts, lastAttempt, lastTick,
                     apiVars >>

\* onChange of the input (line 311)
SetUrl ==
    /\ phase = "mounted"
    /\ darkMode # Null
    /\ \E u \in TypedUrls : u # url /\ url' = u
    /\ UsesRt(Flushed)
    /\ effectPending' = FALSE
    /\ UNCHANGED << serverTime, loading, error, darkMode, timeOffset, syncedUrl, phase,
                    now, inflight, attempts, lastAttempt, lastTick, apiVars >>

\* fetchServerTime up to its await (lines 229-238)
StartFetch ==
    /\ attempts < MaxAttempts
    /\ loading' = TRUE
    /\ error' = Null
    /\ attempts' = attempts + 1
    /\ inflight' = inflight \cup { [id |-> attempts + 1, url |-> url] }
    /\ UsesRt(Flushed)
    /\ effectPending' = FALSE
    /\ UNCHANGED << url, serverTime, darkMode, timeOffset, syncedUrl, phase, now,
                    lastAttempt, lastTick, apiVars >>

\* onClick of the Sync button (lines 320-326)
ClickSync ==
    /\ phase = "mounted"
    /\ darkMode # Null
    /\ ButtonEnabled(loading)
    /\ StartFetch

\* handleKeyDown with the Enter key (lines 260-267)
KeyEnter ==
    /\ phase = "mounted"
    /\ darkMode # Null
    /\ EnterStarts(loading)
    /\ StartFetch

\* The commit of a settled attempt: upd holds the new timeOffset, syncedUrl,
\* serverTime and (on failure) error; finally sets loading false.
Settle(req, upd, err, hist) ==
    /\ inflight' = inflight \ {req}
    /\ timeOffset' = upd.timeOffset
    /\ syncedUrl' = upd.syncedUrl
    /\ serverTime' = upd.serverTime
    /\ error' = err
    /\ loading' = LoadingAfter(hist.ok)
    /\ UsesRt(Flushed)
    /\ effectPending' = (upd.timeOffset # timeOffset)
    /\ lastAttempt' = Some(hist)
    /\ UNCHANGED << url, darkMode, phase, now, attempts, lastTick, apiVars >>

\* fetchServerTime after its awaits, the endpoint having answered (lines 240-257)
Resolve ==
    /\ phase = "mounted"
    /\ \E req \in inflight : \E row \in AnswersTo : \E answer \in row[2] :
          /\ row[1] = req.url
          /\ LET data == answer.data
                 hist == [ok |-> data.status = 200, status |-> data.status,
                          date |-> answer.date, text |-> data.error]
             IN  IF data.status = 200
                 THEN Settle(req, OnSuccess(data, now), error, hist)
                 ELSE LET f == OnFailure(ErrorOf(data), timeOffset, serverTime)
                      IN  Settle(req, f, f.error, hist)

\* fetchServerTime when fetch rejects or the body is not JSON (lines 251-257)
Reject ==
    /\ phase = "mounted"
    /\ \E req \in inflight :
          LET f == OnFailure(ClientFetchError, timeOffset, serverTime)
          IN  Settle(req, f, f.error, [ok |-> FALSE, status |-> 0, date |-> "none",
                                 text |-> ""])

\* A fetch settles after the page is gone: React drops the state updates.
LateSettle ==
    /\ phase = "unmounted"
    /\ \E req \in inflight : inflight' = inflight \ {req}
    /\ UNCHANGED << url, serverTime, loading, error, darkMode, timeOffset, syncedUrl,
                    intervalRef, phase, effectPending, timers, nextTimer, now, attempts,
                    lastAttempt, lastTick, apiVars >>

\* The tick effect runs for the committed render (lines 214-227).
FlushPassiveEffects ==
    /\ phase = "mounted"
    /\ effectPending
    /\ UsesRt(Flushed)
    /\ effectPending' = FALSE
    /\ UNCHANGED << url, serverTime, loading, error, darkMode, timeOffset, syncedUrl,
                    phase, now, inflight, attempts, lastAttempt, lastTick,
                    apiVars >>

\* An interval fires (lines 216-219): the callback publishes a time; before the
\* render it asks for, React runs a pending effect.
Tick ==
    /\ \E x \in timers :
          /\ now >= x.due
          /\ serverTime' = IF phase = "mounted" THEN Some(formatTime(TickValue(x, now)))
                           ELSE serverTime
          /\ lastTick' = Some([timer |-> x.id, at |-> now,
                               shown |-> formatTime(TickValue(x, now)),
                               synced |-> timeOffset # Null,
                               nth |-> IF lastTick # Null /\ lastTick[1].timer = x.id
                                       THEN lastTick[1].nth + 1 ELSE 1])
          /\ timers' = { IF y = x THEN [y EXCEPT !.due = now + TickPeriod] ELSE y :
                           y \in Flushed.timers }
          /\ intervalRef' = Flushed.intervalRef
          /\ nextTimer' = Flushed.nextTimer
    /\ effectPending' = FALSE
    /\ UNCHANGED << url, loading, error, darkMode, timeOffset, syncedUrl, phase, now,
                    inflight, attempts, lastAttempt, apiVars >>

\* The local clock advances. The task that runs a pending effect follows the
\* commit within the same clock reading.
Advance ==
    /\ ~effectPending
    /\ now + ClockStep <= MaxNow
    /\ now' = now + ClockStep
    /\ UNCHANGED << url, serverTime, loading, error, darkMode, timeOffset, syncedUrl,
                    intervalRef, phase, effectPending, timers, nextTimer, inflight,
                    attempts, lastAttempt, lastTick, apiVars >>

\* The component is removed: a pending effect runs, then the cleanup.
Unmount ==
    /\ phase = "mounted"
    /\ phase' = "unmounted"
    /\ timers' = EffectCleanup(Flushed.timers, Flushed.intervalRef)
    /\ intervalRef' = Flushed.intervalRef
    /\ nextTimer' = Flushed.nextTimer
    /\ effectPending' = FALSE
    /\ UNCHANGED << url, serverTime, loading, error, darkMode, timeOffset, syncedUrl,
                    now, inflight, attempts, lastAttempt, lastTick, apiVars >>

Next ==
    \/ Mount
    \/ SetUrl
    \/ ClickSync
    \/ KeyEnter
    \/ Resolve
    \/ Reject
    \/ LateSettle
    \/ FlushPassiveEffects
    \/ Tick
    \/ Advance
    \/ Unmount

Spec == Init /\ [][Next]_vars

\* The request of an outstanding attempt eventually resolves or rejects.
FairSpec == Spec /\ WF_vars(Resolve \/ Reject)

----------------------------------------------------------------------------
(* Claims about the endpoint (checked under ApiSpec) *)

Answered == apiAnswer # Null
Response == apiAnswer[1].response
Latency == apiCall.endTime - apiCall.startTime
WhitespaceOnly(str) == \A i \in 1 .. Len(str) : IsSpace(str[i])

\* C1: a successful POST whose measured latency l is >= 0 returns
\* serverTime = r + floor(l/2) for the reported time r: twice the compensation
\* is l or l - 1; l = 0 returns r; r = 1700000000, l = 40 returns r + 20.
C1_HalfLatencyFloor ==
    (Answered /\ Response.status = 200 /\ Latency >= 0) =>
        LET half == Response.serverTime - apiCall.probe.date.ms
        IN  /\ 2 * half <= Latency
            /\ Latency <= 2 * half + 1
            /\ (Latency = 0 => Response.serverTime = apiCall.probe.date.ms)
            /\ (apiCall.probe.date.ms = 1700000000 /\ Latency = 40
                    => Response.serverTime = 1700000020)

\* a success with an odd latency, where floor and rounding differ
C1_Witness ==
    /\ Answered
    /\ Response.status = 200
    /\ Latency = 1
    /\ Response.serverTime = apiCall.probe.date.ms

\* C6: a Date header that is present but does not parse gives the 400
\* "Server did not return a Date header" answer.
C6_UnparseableDateIs400 ==
    (/\ Answered
     /\ apiAnswer[1].fetches = 1
     /\ ~apiCall.probe.throws
     /\ apiCall.probe.date.kind = "invalid")
        => (Response.status = 400 /\ Response.error = Err_NoDateHeader)

\* C7: a missing, empty or whitespace-only url is answered with a 400
\* "URL is required" or "Invalid URL format" and no outbound request is made.
C7_BlankUrlNoFetch ==
    (/\ Answered
     /\ apiCall.body.json
     /\ \/ apiCall.body.url.t = "undefined"
        \/ apiCall.body.url.t = "string" /\ WhitespaceOnly(apiCall.body.url.s))
        => /\ Response.status = 400
           /\ Response.error \in {Err_UrlRequired, Err_InvalidUrl}
           /\ apiAnswer[1].fetches = 0

\* a url of spaces only was answered "Invalid URL format"
C7_Witness ==
    /\ Answered
    /\ apiCall.body.json
    /\ apiCall.body.url = JsString(Str_spaces)
    /\ Response.error = Err_InvalidUrl
    /\ apiAnswer[1].fetches = 0

\* the request body is readable and its url passes lines 7-27
Validated ==
    /\ apiCall.body.json
    /\ Truthy(apiCall.body.url)
    /\ TargetUrl(apiCall.body.url).ok

\* C11: every answer that is neither a success nor one of the 400 answers is
\* the 500 answer with the generic body, the same for an unreadable request
\* body, a probe that throws and any other exception.
C11_GenericFailure ==
    Answered =>
        /\ (Response.status \notin {200, 400}
                => Response = ErrorResponse(500, "Failed to fetch server time"))
        /\ (~apiCall.body.json \/ (Validated /\ apiCall.probe.throws)
                => Response = ErrorResponse(500, "Failed to fetch server time"))

\* the probe threw and the generic 500 was answered
C11_Witness ==
    /\ Answered
    /\ Validated
    /\ apiCall.probe.throws
    /\ Response.status = 500
    /\ Response.error = "Failed to fetch server time"

\* C12: a call whose input passes validation makes exactly one outbound
\* request, also when the probe fails.
C12_OneProbePerCall == (Answered /\ Validated) => apiAnswer[1].fetches = 1

\* a failed probe ended the call with an error after one request
C12_Witness ==
    /\ Answered
    /\ Validated
    /\ apiCall.probe.throws
    /\ Response.status = 500
    /\ apiAnswer[1].fetches = 1

\* the url of the call, a string
CallUrl == apiCall.body.url.s
StringUrlCall ==
    Answered /\ apiCall.body.json /\ apiCall.body.url.t = "string" /\ Truthy(apiCall.body.url)

\* what the handler answers to the same call made with url u
AnswerFor(u) ==
    POST([json |-> TRUE, url |-> JsString(u)], apiCall.probe, apiCall.startTime,
         apiCall.endTime)

\* the canonical origin of the model's well-formed addresses, written out
Str_http_naver ==
    << "h", "t", "t", "p", ":", "/", "/", "n", "a", "v", "e", "r", ".", "c", "o", "m" >>
ExpectedOrigin(u) ==
    CASE u \in {Str_naver, Str_https_naver, Str_padded_naver} -> Str_https_naver
      [] u = Str_HTTP_Naver_path -> Str_http_naver
      [] OTHER -> << >>

\* C14 as stated: an input that starts with a scheme is left as it is, an
\* input without one is answered exactly as the same input prefixed with
\* "https://", and a success returns the canonical origin.
C14_NormalizationAsPrefixed ==
    StringUrlCall =>
        /\ (HasScheme(CallUrl) => NormalizedUrl(CallUrl) = CallUrl)
        /\ (~HasScheme(CallUrl) => apiAnswer[1] = AnswerFor(Str_https \o CallUrl))
        /\ (Response.status = 200 => Response.url = ExpectedOrigin(CallUrl))

\* C14 amended: an input that starts with a scheme once trimmed is only
\* trimmed, an input without one is answered exactly as its trimmed text
\* prefixed with "https://", and a success returns the canonical origin.
C14_NormalizationAsTrimmedPrefixed ==
    StringUrlCall =>
        /\ (HasScheme(Trim(CallUrl)) => NormalizedUrl(CallUrl) = Trim(CallUrl))
        /\ (~HasScheme(Trim(CallUrl))
                => apiAnswer[1] = AnswerFor(Str_https \o Trim(CallUrl)))
        /\ (Response.status = 200 => Response.url = ExpectedOrigin(CallUrl))

\* " naver.com " was answered with the origin https://naver.com
C14_Witness ==
    /\ StringUrlCall
    /\ CallUrl = Str_padded_naver
    /\ Response.status = 200
    /\ Response.url = Str_https_naver

\* C17: the latency of a successful answer is endTime - startTime and is >= 0.
C17_LatencyNonNegative ==
    (Answered /\ Response.status = 200) =>
        /\ Response.latency = apiCall.endTime - apiCall.startTime
        /\ Response.latency >= 0

----------------------------------------------------------------------------
(* Claims about the page (checked under Spec) *)

LastFailed == lastAttempt # Null /\ ~lastAttempt[1].ok
LastSucceeded == lastAttempt # Null /\ lastAttempt[1].ok

\* C2: while the page exists, timeOffset is non-null exactly when an attempt
\* has settled and the last settled attempt succeeded.
C2_OffsetIffLastSucceeded ==
    phase # "unmounted" => (timeOffset # Null <=> LastSucceeded)

\* a resync failed after an earlier success had published a time
C2_Witness ==
    /\ phase = "mounted"
    /\ LastFailed
    /\ serverTime # Null
    /\ timeOffset = Null

\* C3: when the last settled attempt failed (and no new one is running), the
\* page shows the error text and no time.
C3_FailedSyncShowsNoTime ==
    (phase = "mounted" /\ LastFailed /\ ~loading) =>
        (error # Null /\ serverTime = Null)

\* C4: at most one interval is set at any time.
C4_AtMostOneInterval == Cardinality(timers) <= 1

\* a third interval runs alone: the two before it were cleared
C4_Witness == nextTimer >= 4 /\ Cardinality(timers) = 1

\* C5: no interval callback runs while timeOffset is null.
C5_NoTickWhileUnsynced == lastTick # Null => lastTick[1].synced

\* C8: two consecutive ticks of one interval show times that differ by the
\* local time elapsed between them, and a tick of the interval the committed
\* render's effect started publishes local now + timeOffset.
C8_TicksInLockstep ==
    [][ (lastTick' # lastTick) =>
          /\ (lastTick # Null /\ lastTick'[1].timer = lastTick[1].timer)
                => Instant(lastTick'[1].shown) - Instant(lastTick[1].shown)
                     = lastTick'[1].at - lastTick[1].at
          /\ (~effectPending /\ phase = "mounted")
                => /\ timeOffset # Null
                   /\ serverTime' = Some(lastTick'[1].shown)
                   /\ Instant(lastTick'[1].shown) = now + timeOffset[1] ]_vars

\* an interval has ticked twice
C8_Witness == lastTick # Null /\ lastTick[1].nth >= 2 /\ lastTick[1].synced

\* C9: at most one fetch of the endpoint is outstanding, and while the page
\* exists loading is true exactly while one is.
C9_OneInFlight ==
    /\ Cardinality(inflight) <= 1
    /\ phase = "mounted" => (loading <=> inflight # {})

\* a second attempt is outstanding, alone
C9_Witness == attempts >= 2 /\ loading /\ Cardinality(inflight) = 1

\* C10: when the probed response had no Date header, the endpoint answered
\* 400, timeOffset is null, the error is shown once loading ends, and no
\* interval is left once the effect has run.
C10_NoDateHeaderNoOffset ==
    (phase = "mounted" /\ lastAttempt # Null /\ lastAttempt[1].date \in {"absent", "empty"})
        => /\ lastAttempt[1].status = 400
           /\ timeOffset = Null
           /\ (~loading => error = Some(Err_NoDateHeader))
           /\ (~effectPending => timers = {})

\* a resync met a response without Date header after an earlier success
C10_Witness ==
    /\ phase = "mounted"
    /\ lastAttempt # Null
    /\ lastAttempt[1].date = "absent"
    /\ serverTime # Null
    /\ ~effectPending
    /\ timers = {}

\* C13: running the effect's cleanup leaves no interval, running it again
\* changes nothing, also when no interval was ever started; after the
\* unmount's cleanup no interval is left.
C13_CleanupIdempotent ==
    LET once == EffectCleanup(timers, intervalRef)
    IN  /\ once = {}
        /\ EffectCleanup(once, intervalRef) = once
        /\ (intervalRef = Null => timers = {})
        /\ (phase = "unmounted" => timers = {})

\* the cleanup ran for the failed resync and again at unmount
C13_Witness ==
    /\ phase = "unmounted"
    /\ intervalRef # Null
    /\ timeOffset = Null
    /\ timers = {}

\* C15: syncedUrl is non-null exactly when timeOffset is, a non-null
\* timeOffset comes with a rendered time, and an interval exists only once a
\* success has settled, with the offset of a settled success: once the effect
\* has run, the only interval is the one of the committed timeOffset.
C15_NoTornState ==
    /\ (syncedUrl # Null <=> timeOffset # Null)
    /\ (timeOffset # Null => serverTime # Null)
    /\ (timers # {} => (lastAttempt # Null /\ serverTime # Null))
    /\ ((~effectPending /\ phase = "mounted")
           => IF timeOffset = Null THEN timers = {}
              ELSE \E x \in timers : timers = {x} /\ x.offset = timeOffset[1])

\* the interval of a settled success is running and the origin is shown
C15_Witness ==
    /\ phase = "mounted"
    /\ ~effectPending
    /\ timeOffset # Null
    /\ syncedUrl = Some(Str_https_naver)
    /\ timers # {}

\* C16: once the component is unmounted (its effect cleanup has run) no
\* interval callback runs, no interval exists, none is started and the state
\* is not updated, also when an attempt that was outstanding at the unmount
\* settles afterwards.
C16_NoTickAfterUnmount ==
    [][ phase = "unmounted" =>
          /\ lastTick' = lastTick
          /\ timers' = {}
          /\ nextTimer' = nextTimer
          /\ intervalRef' = intervalRef
          /\ timeOffset' = timeOffset
          /\ serverTime' = serverTime ]_vars

\* an interval had run, and the attempt outstanding at the unmount has settled
C16_Witness ==
    /\ phase = "unmounted"
    /\ loading
    /\ inflight = {}
    /\ intervalRef # Null
    /\ lastTick # Null

EndpointTexts ==
    { "URL is required", "Invalid URL format", "Server did not return a Date header",
      "Failed to fetch server time" }

\* C18 as stated: the error is shown exactly when the last settled attempt
\* failed and none was started since, and it is one of the endpoint's texts.
C18_ErrorIsEndpointText ==
    phase = "mounted" =>
        /\ (error # Null <=> (LastFailed /\ ~loading))
        /\ (error # Null => error[1] \in EndpointTexts)

\* C18 amended: the error is shown exactly when the last settled attempt
\* failed and none was started since; it is the endpoint's text when the
\* endpoint answered, and the message of the thrown error when the request to
\* the endpoint itself failed.
C18_ErrorShown ==
    phase = "mounted" =>
        /\ (error # Null <=> (LastFailed /\ ~loading))
        /\ (error # Null =>
              IF lastAttempt[1].status = 0 THEN error[1] = "Failed to fetch"
              ELSE error[1] = lastAttempt[1].text /\ error[1] \in EndpointTexts)

\* the endpoint's "Invalid URL format" is shown
C18_Witness ==
    /\ phase = "mounted"
    /\ LastFailed
    /\ lastAttempt[1].status = 400
    /\ error = Some("Invalid URL format")

----------------------------------------------------------------------------
(* Claims about the page (checked under FairSpec) *)

\* C19: an attempt that is outstanding ends with loading = false (unless the
\* page is unmounted first); loading is true only while an attempt is
\* outstanding, and when it is false a sync can be started.
C19_LoadingEnds ==
    /\ [](phase = "mounted" /\ loading => inflight # {})
    /\ [](phase = "mounted" /\ darkMode # Null /\ ~loading /\ attempts < MaxAttempts
             => ENABLED ClickSync)
    /\ ((phase = "mounted" /\ loading) ~> (~loading \/ phase = "unmounted"))

\* a failed attempt has left loading false
C19_Witness == phase = "mounted" /\ LastFailed /\ ~loading /\ inflight = {}

====
